---- MODULE Spec2Model ----
(***************************************************************************)
(* A model of the phone book manager: the Contact record (contact.py), the *)
(* PhoneBook store (phonebook.py) and the entry points of main.py that the *)
(* store depends on.                                                       *)
(*                                                                         *)
(* Python strings are sequences of one-character strings, so that lower(), *)
(* strip(), the substring test, the phone pattern, strptime and the csv    *)
(* dialect are computed character by character.  Characters are printable *)
(* ASCII (GRAVE names the grave accent, which the lexer does not take in a *)
(* string); a field never holds a carriage return or a line feed,          *)
(* so a csv file is a sequence of lines.                                   *)
(***************************************************************************)
EXTENDS Integers, Sequences, FiniteSets, TLC

VARIABLES contacts, file, now, last

vars == <<contacts, file, now, last>>

(***************************************************************************)
(* Bounds of the model.                                                    *)
(***************************************************************************)
MaxContacts == 3
MaxTimed == 2
MaxClock == 4
TicksPerDay == 2

(***************************************************************************)
(* Characters and the str methods the program uses.                        *)
(***************************************************************************)
\* None, kept apart from every string (a string is a sequence of characters)
None == <<"None">>

Ascii ==
  <<" ", "!", "\"", "#", "$", "%", "&", "'", "(", ")", "*", "+", ",", "-", ".", "/",
    "0", "1", "2", "3", "4", "5", "6", "7", "8", "9", ":", ";", "<", "=", ">", "?",
    "@", "A", "B", "C", "D", "E", "F", "G", "H", "I", "J", "K", "L", "M", "N", "O",
    "P", "Q", "R", "S", "T", "U", "V", "W", "X", "Y", "Z", "[", "\\", "]", "^", "_",
    "GRAVE", "a", "b", "c", "d", "e", "f", "g", "h", "i", "j", "k", "l", "m", "n", "o",
    "p", "q", "r", "s", "t", "u", "v", "w", "x", "y", "z", "{", "|", "}", "~">>

Chars == {Ascii[i] : i \in 1..Len(Ascii)}

\* ord(c): the code point of a character
OrdTable == [c \in Chars |-> 31 + (CHOOSE i \in 1..Len(Ascii) : Ascii[i] = c)]

Ord(c) == OrdTable[c]

Chr(n) == Ascii[n - 31]

\* str.lower() of one character, and of a string
LowerChar(c) == IF Ord(c) >= Ord("A") /\ Ord(c) <= Ord("Z") THEN Chr(Ord(c) + Ord("a") - Ord("A")) ELSE c

Lower(s) == [i \in 1..Len(s) |-> LowerChar(s[i])]

\* str.isspace() of one character
IsSpace(c) == c = " "

RECURSIVE LStrip(_)
LStrip(s) == IF s # <<>> /\ IsSpace(Head(s)) THEN LStrip(Tail(s)) ELSE s

RECURSIVE RStrip(_)
RStrip(s) == IF s # <<>> /\ IsSpace(s[Len(s)]) THEN RStrip(SubSeq(s, 1, Len(s) - 1)) ELSE s

\* str.strip()
Strip(s) == RStrip(LStrip(s))

\* q in s, for strings
Contains(s, q) == \E i \in 0..(Len(s) - Len(q)) : SubSeq(s, i + 1, i + Len(q)) = q

\* s < t, for strings: by code point, the shorter string first on a tie
RECURSIVE StrLess(_, _)
StrLess(s, t) ==
  IF t = <<>> THEN FALSE
  ELSE IF s = <<>> THEN TRUE
  ELSE IF Head(s) # Head(t) THEN Ord(Head(s)) < Ord(Head(t))
  ELSE StrLess(Tail(s), Tail(t))

\* \d of the re module, within the alphabet
IsDigit(c) == Ord(c) >= Ord("0") /\ Ord(c) <= Ord("9")

(***************************************************************************)
(* The phone pattern and re.fullmatch.  A pattern is a sequence of atoms,  *)
(* each a literal character or \d, repeated a fixed number of times.       *)
(***************************************************************************)
Lit(c, n) == [kind |-> "lit", ch |-> c, count |-> n]

Digit(n) == [kind |-> "digit", ch |-> "0", count |-> n]

AtomMatches(a, c) == IF a.kind = "digit" THEN IsDigit(c) ELSE c = a.ch

\* the position after the match of atoms k.. of p at position pos of s, or -1
RECURSIVE MatchFrom(_, _, _, _)
MatchFrom(p, k, s, pos) ==
  IF k > Len(p) THEN pos
  ELSE IF pos - 1 + p[k].count > Len(s) THEN -1
  ELSE IF \A j \in 0..(p[k].count - 1) : AtomMatches(p[k], s[pos + j])
       THEN MatchFrom(p, k + 1, s, pos + p[k].count)
       ELSE -1

\* re.match(p, s) is not None: a match of a prefix of s
re_match(p, s) == MatchFrom(p, 1, s, 1) # -1

\* re.fullmatch(p, s) is not None
re_fullmatch(p, s) == MatchFrom(p, 1, s, 1) = Len(s) + 1

\* r"\(\d{3}\) \d{3}-\d{4}" of the store
pattern == <<Lit("(", 1), Digit(3), Lit(")", 1), Lit(" ", 1), Digit(3), Lit("-", 1), Digit(4)>>

\* PhoneBook.validate_phone_number
validate_phone_number(phone_number) == re_fullmatch(pattern, phone_number)

\* r"\(\d{3}\) \d{3}-\d{4}" of the command line
main_pattern == <<Lit("(", 1), Digit(3), Lit(")", 1), Lit(" ", 1), Digit(3), Lit("-", 1), Digit(4)>>

\* validate_phone_number of main.py
main_validate_phone_number(phone_number) == re_fullmatch(main_pattern, phone_number)

(***************************************************************************)
(* The strings the phone check is tried on: a well-formed number and every *)
(* string one edit away from it.                                           *)
(***************************************************************************)
Phone1 == <<"(", "5", "5", "5", ")", " ", "1", "2", "3", "-", "4", "5", "6", "7">>

Phone2 == <<"(", "5", "5", "5", ")", " ", "9", "9", "9", "-", "8", "8", "8", "8">>

BadPhone == <<"1", "2", "3">>

EditChars == {"(", ")", " ", "-", "0", "9", "a", "/", ":"}

Replaced(s) == {[s EXCEPT ![i] = c] : i \in 1..Len(s), c \in EditChars}

Dropped(s) == {SubSeq(s, 1, i - 1) \o SubSeq(s, i + 1, Len(s)) : i \in 1..Len(s)}

Inserted(s) == {SubSeq(s, 1, i) \o <<c>> \o SubSeq(s, i + 1, Len(s)) : i \in 0..Len(s), c \in EditChars}

PhoneStrings == {Phone1, Phone2, BadPhone, <<>>} \cup Replaced(Phone1) \cup Dropped(Phone1) \cup Inserted(Phone1)


(***************************************************************************)
(* The Contact record.  A timestamp is the clock's tick count when          *)
(* datetime.now() was called.                                               *)
(***************************************************************************)
\* Contact.__init__: t1 and t2 are what the two calls of datetime.now() return
Contact(first_name, last_name, phone_number, email, address, t1, t2) ==
  [first_name |-> first_name, last_name |-> last_name, phone_number |-> phone_number,
   email |-> email, address |-> address, created_at |-> t1, updated_at |-> t2]

\* the truth value of an optional string: None and "" are false
Truthy(x) == x # None /\ x # <<>>

\* Contact.update_contact that also resets created_at
update_contact_touch_created(c, info, t) ==
  [c EXCEPT !.first_name = IF Truthy(info.first_name) THEN info.first_name ELSE @,
            !.last_name = IF Truthy(info.last_name) THEN info.last_name ELSE @,
            !.phone_number = IF Truthy(info.phone_number) THEN info.phone_number ELSE @,
            !.email = IF Truthy(info.email) THEN info.email ELSE @,
            !.address = IF Truthy(info.address) THEN info.address ELSE @,
            !.created_at = t,
            !.updated_at = t]

\* Contact.update_contact: info holds the five keyword arguments, t is datetime.now()
update_contact(c, info, t) ==
  [c EXCEPT !.first_name = IF Truthy(info.first_name) THEN info.first_name ELSE @,
            !.last_name = IF Truthy(info.last_name) THEN info.last_name ELSE @,
            !.phone_number = IF Truthy(info.phone_number) THEN info.phone_number ELSE @,
            !.email = IF Truthy(info.email) THEN info.email ELSE @,
            !.address = IF Truthy(info.address) THEN info.address ELSE @,
            !.updated_at = t]

\* the (first, last, phone, email, address) of a Contact
Fields(c) == <<c.first_name, c.last_name, c.phone_number, c.email, c.address>>

(***************************************************************************)
(* The PhoneBook store.  Each method is an operator from the contact list   *)
(* (and the arguments) to the contact list after the call.                  *)
(***************************************************************************)
\* sorted(): c goes before the first element whose key is greater (stable)
InsertByKey(sorted, c, key) ==
  LET later == {i \in 1..Len(sorted) : StrLess(Lower(c[key]), Lower(sorted[i][key]))}
      p == IF later = {} THEN Len(sorted) + 1 ELSE CHOOSE i \in later : \A j \in later : i <= j
  IN SubSeq(sorted, 1, p - 1) \o <<c>> \o SubSeq(sorted, p, Len(sorted))

RECURSIVE SortedFrom(_, _, _)
SortedFrom(acc, rest, key) ==
  IF rest = <<>> THEN acc ELSE SortedFrom(InsertByKey(acc, Head(rest), key), Tail(rest), key)

\* PhoneBook.sort_contacts(key)
sort_contacts(cs, key) ==
  IF key = "first_name" \/ key = "last_name" THEN SortedFrom(<<>>, cs, key) ELSE cs

\* PhoneBook.add_contact that sorts with sort_contacts' default key
add_contact_default_key(cs, contact) ==
  IF ~validate_phone_number(contact.phone_number) THEN cs
  ELSE sort_contacts(Append(cs, contact), "first_name")

\* PhoneBook.add_contact that sorts before it checks the phone number
add_contact_sort_first(cs, contact) ==
  IF ~validate_phone_number(contact.phone_number) THEN sort_contacts(cs, "last_name")
  ELSE sort_contacts(Append(cs, contact), "last_name")

\* PhoneBook.add_contact
add_contact(cs, contact) ==
  IF ~validate_phone_number(contact.phone_number) THEN cs
  ELSE sort_contacts(Append(cs, contact), "last_name")

\* the least of a set of positions, or 0 if there is none
FirstIndex(hits) == IF hits = {} THEN 0 ELSE CHOOSE i \in hits : \A j \in hits : i <= j

\* PhoneBook.remove_contact_by_name that removes the first match only
remove_contact_first_match(cs, first_name, last_name) ==
  LET first == Strip(first_name)
      lastn == Strip(last_name)
      hit(c) == Lower(Strip(c.first_name)) = Lower(first) /\ Lower(Strip(c.last_name)) = Lower(lastn)
      i == FirstIndex({k \in 1..Len(cs) : hit(cs[k])})
  IN IF i = 0 THEN cs ELSE SubSeq(cs, 1, i - 1) \o SubSeq(cs, i + 1, Len(cs))

\* PhoneBook.remove_contact_by_name
remove_contact_by_name(cs, first_name, last_name) ==
  LET first == Strip(first_name)
      lastn == Strip(last_name)
      keep(c) == \/ Lower(Strip(c.first_name)) # Lower(first)
                 \/ Lower(Strip(c.last_name)) # Lower(lastn)
  IN SelectSeq(cs, keep)

\* the contact PhoneBook.update_contact_by_name updates: its position, or 0
update_target(cs, first_name, last_name) ==
  LET hit(c) == Lower(c.first_name) = Lower(first_name) /\ Lower(c.last_name) = Lower(last_name)
  IN FirstIndex({k \in 1..Len(cs) : hit(cs[k])})

\* PhoneBook.update_contact_by_name that sorts the list again by last name
update_contact_by_name_resort(cs, first_name, last_name, new_contact_info, t) ==
  LET i == update_target(cs, first_name, last_name)
  IN IF i = 0 THEN cs
     ELSE sort_contacts([cs EXCEPT ![i] = update_contact(cs[i], new_contact_info, t)], "last_name")

\* PhoneBook.update_contact_by_name
update_contact_by_name(cs, first_name, last_name, new_contact_info, t) ==
  LET i == update_target(cs, first_name, last_name)
  IN IF i = 0 THEN cs ELSE [cs EXCEPT ![i] = update_contact(cs[i], new_contact_info, t)]

\* PhoneBook.search_contact that does not strip the query
search_contact_no_strip(cs, query) ==
  LET q == Lower(query)
      hit(c) == \/ Contains(Lower(c.first_name), q)
                \/ Contains(Lower(c.last_name), q)
                \/ Contains(c.phone_number, q)
  IN SelectSeq(cs, hit)

\* PhoneBook.search_contact: the list it returns
search_contact(cs, query) ==
  LET q == Lower(Strip(query))
      hit(c) == \/ Contains(Lower(c.first_name), q)
                \/ Contains(Lower(c.last_name), q)
                \/ Contains(c.phone_number, q)
  IN SelectSeq(cs, hit)

(***************************************************************************)
(* The csv module, excel dialect: delimiter comma, quote character ",      *)
(* doubled inside a quoted field, minimal quoting.  A row is a sequence of *)
(* fields, a line is a string without its terminator.  An open quote at    *)
(* the end of a line is closed there, as the reader does at the end of the *)
(* input; no file of the model has one on another line.                    *)
(***************************************************************************)
\* what the writer writes for one value: None is written as the empty string
FieldText(f) == IF f = None THEN <<>> ELSE f

RECURSIVE DoubleQuotes(_)
DoubleQuotes(f) ==
  IF f = <<>> THEN <<>>
  ELSE IF Head(f) = "\"" THEN <<"\"", "\"">> \o DoubleQuotes(Tail(f))
  ELSE <<Head(f)>> \o DoubleQuotes(Tail(f))

\* one field as the writer writes it: quoted when it holds a comma or a quote
csv_field(f) ==
  LET text == FieldText(f)
  IN IF \E i \in 1..Len(text) : text[i] \in {",", "\""}
     THEN <<"\"">> \o DoubleQuotes(text) \o <<"\"">>
     ELSE text

\* csv.writer(file).writerow(fields), without the line terminator
RECURSIVE csv_writerow(_)
csv_writerow(fields) ==
  IF Len(fields) = 1 THEN csv_field(fields[1])
  ELSE csv_field(Head(fields)) \o <<",">> \o csv_writerow(Tail(fields))

\* the reader's state machine over one line, from character i on; state is
\* one of START_FIELD, IN_FIELD, IN_QUOTED_FIELD, QUOTE_IN_QUOTED_FIELD
RECURSIVE ParseFrom(_, _, _, _, _)
ParseFrom(line, i, state, field, row) ==
  IF i > Len(line) THEN Append(row, field)
  ELSE LET c == line[i]
       IN CASE state = "START_FIELD" ->
                 IF c = "\"" THEN ParseFrom(line, i + 1, "IN_QUOTED_FIELD", field, row)
                 ELSE IF c = "," THEN ParseFrom(line, i + 1, "START_FIELD", <<>>, Append(row, field))
                 ELSE ParseFrom(line, i + 1, "IN_FIELD", Append(field, c), row)
            [] state = "IN_FIELD" ->
                 IF c = "," THEN ParseFrom(line, i + 1, "START_FIELD", <<>>, Append(row, field))
                 ELSE ParseFrom(line, i + 1, "IN_FIELD", Append(field, c), row)
            [] state = "IN_QUOTED_FIELD" ->
                 IF c = "\"" THEN ParseFrom(line, i + 1, "QUOTE_IN_QUOTED_FIELD", field, row)
                 ELSE ParseFrom(line, i + 1, "IN_QUOTED_FIELD", Append(field, c), row)
            [] OTHER ->
                 IF c = "\"" THEN ParseFrom(line, i + 1, "IN_QUOTED_FIELD", Append(field, c), row)
                 ELSE IF c = "," THEN ParseFrom(line, i + 1, "START_FIELD", <<>>, Append(row, field))
                 ELSE ParseFrom(line, i + 1, "IN_FIELD", Append(field, c), row)

\* the row csv.reader yields for one line: [] for an empty line
csv_row(line) == IF line = <<>> THEN <<>> ELSE ParseFrom(line, 1, "START_FIELD", <<>>, <<>>)

\* list(csv.reader(file))
csv_reader(lines) == [i \in 1..Len(lines) |-> csv_row(lines[i])]

(***************************************************************************)
(* The methods that read and write csv files.  A file is a record: whether *)
(* it exists, and its lines.  Every Contact built during one call gets the *)
(* timestamp t.                                                            *)
(***************************************************************************)
\* the Contact built from a row of at least three fields
row_contact(row, t) ==
  Contact(row[1], row[2], row[3],
          IF Len(row) > 3 THEN row[4] ELSE None,
          IF Len(row) > 4 THEN row[5] ELSE None, t, t)

\* PhoneBook.save_to_file: the lines written
save_to_file(cs) == [i \in 1..Len(cs) |-> csv_writerow(Fields(cs[i]))]

\* the loop of PhoneBook.load_from_file that appends the row's Contact itself
RECURSIVE load_rows_append(_, _, _)
load_rows_append(cs, rows, t) ==
  IF rows = <<>> THEN cs
  ELSE LET row == Head(rows)
       IN IF Len(row) >= 3
          THEN load_rows_append(Append(cs, row_contact(row, t)), Tail(rows), t)
          ELSE load_rows_append(cs, Tail(rows), t)

\* the loop of PhoneBook.load_from_file
RECURSIVE load_rows(_, _, _)
load_rows(cs, rows, t) ==
  IF rows = <<>> THEN cs
  ELSE LET row == Head(rows)
       IN IF Len(row) >= 3
          THEN load_rows(add_contact(cs, row_contact(row, t)), Tail(rows), t)
          ELSE load_rows(cs, Tail(rows), t)

\* PhoneBook.load_from_file: a missing file is reported and nothing is loaded
load_from_file(cs, f, t) == IF f.exists THEN load_rows(cs, csv_reader(f.lines), t) ELSE cs

\* f"{first_name} {last_name}: {phone_number}"
invalid_entry(row) == row[1] \o <<" ">> \o row[2] \o <<":", " ">> \o row[3]

\* the loop of PhoneBook.batch_import with break in the place of continue
RECURSIVE import_rows_break(_, _, _, _)
import_rows_break(cs, invalid, rows, t) ==
  IF rows = <<>> THEN [contacts |-> cs, invalid |-> invalid]
  ELSE LET row == Head(rows)
       IN IF Len(row) >= 3
          THEN IF ~validate_phone_number(row[3])
               THEN [contacts |-> cs, invalid |-> Append(invalid, invalid_entry(row))]
               ELSE import_rows_break(add_contact(cs, row_contact(row, t)), invalid, Tail(rows), t)
          ELSE import_rows_break(cs, invalid, Tail(rows), t)

\* the loop of PhoneBook.batch_import: the contact list and invalid_contacts
RECURSIVE import_rows(_, _, _, _)
import_rows(cs, invalid, rows, t) ==
  IF rows = <<>> THEN [contacts |-> cs, invalid |-> invalid]
  ELSE LET row == Head(rows)
       IN IF Len(row) >= 3
          THEN IF ~validate_phone_number(row[3])
               THEN import_rows(cs, Append(invalid, invalid_entry(row)), Tail(rows), t)
               ELSE import_rows(add_contact(cs, row_contact(row, t)), invalid, Tail(rows), t)
          ELSE import_rows(cs, invalid, Tail(rows), t)

\* PhoneBook.batch_import: FileNotFoundError is caught and reported
batch_import(cs, csv_file, t) ==
  IF csv_file.exists
  THEN [status |-> "completed"] @@ import_rows(cs, <<>>, csv_reader(csv_file.lines), t)
  ELSE [status |-> "file not found", contacts |-> cs, invalid |-> <<>>]

\* the loop of PhoneBook.batch_delete: the contact list and not_found_contacts
RECURSIVE delete_rows(_, _, _)
delete_rows(cs, not_found, rows) ==
  IF rows = <<>> THEN [contacts |-> cs, not_found |-> not_found]
  ELSE LET row == Head(rows)
       IN IF Len(row) >= 2
          THEN LET first_name == Strip(row[1])
                   last_name == Strip(row[2])
                   after == remove_contact_by_name(cs, first_name, last_name)
               IN delete_rows(after,
                              IF Len(after) = Len(cs)
                              THEN Append(not_found, first_name \o <<" ">> \o last_name)
                              ELSE not_found,
                              Tail(rows))
          ELSE delete_rows(cs, not_found, Tail(rows))

\* PhoneBook.batch_delete: FileNotFoundError is caught and reported; next(reader)
\* on a file without a line raises StopIteration, which no handler catches
batch_delete(cs, csv_file) ==
  IF ~csv_file.exists
  THEN [status |-> "file not found", exc |-> "none", contacts |-> cs, not_found |-> <<>>]
  ELSE IF csv_file.lines = <<>>
  THEN [status |-> "none", exc |-> "StopIteration", contacts |-> cs, not_found |-> <<>>]
  ELSE [status |-> "completed", exc |-> "none"]
       @@ delete_rows(cs, <<>>, Tail(csv_reader(csv_file.lines)))

(***************************************************************************)
(* Dates.  The clock starts at midnight of EpochDate and a day has         *)
(* TicksPerDay ticks; a date is <<year, month, day>>.                       *)
(***************************************************************************)
EpochDate == <<2024, 1, 30>>

IsLeap(y) == (y % 4 = 0 /\ y % 100 # 0) \/ y % 400 = 0

DaysInMonth(y, m) ==
  IF m = 2 THEN (IF IsLeap(y) THEN 29 ELSE 28)
  ELSE IF m \in {4, 6, 9, 11} THEN 30 ELSE 31

NextDay(d) ==
  IF d[3] < DaysInMonth(d[1], d[2]) THEN <<d[1], d[2], d[3] + 1>>
  ELSE IF d[2] < 12 THEN <<d[1], d[2] + 1, 1>>
  ELSE <<d[1] + 1, 1, 1>>

RECURSIVE AddDays(_, _)
AddDays(d, n) == IF n = 0 THEN d ELSE AddDays(NextDay(d), n - 1)

\* datetime.date() of a timestamp
DateOf(t) == AddDays(EpochDate, t \div TicksPerDay)

\* a <= b for dates: year, then month, then day
DateLeq(a, b) ==
  \/ a[1] < b[1]
  \/ a[1] = b[1] /\ a[2] < b[2]
  \/ a[1] = b[1] /\ a[2] = b[2] /\ a[3] <= b[3]

\* int() of a string of digits and blanks
DigitVal(c) == Ord(c) - Ord("0")

RECURSIVE IntOf(_, _)
IntOf(s, acc) ==
  IF s = <<>> THEN acc
  ELSE IF IsSpace(Head(s)) THEN IntOf(Tail(s), acc)
  ELSE IntOf(Tail(s), 10 * acc + DigitVal(Head(s)))

\* s has a character at i and it is one of set
At(s, i, set) == i <= Len(s) /\ s[i] \in set

Digits == {c \in Chars : IsDigit(c)}

\* the length of the text the %d directive takes at i,
\* 3[0-1]|[1-2]\d|0[1-9]|[1-9]| [1-9], trying the alternatives in this order;
\* 0 if none fits
DayLen(s, i) ==
  IF At(s, i, {"3"}) /\ At(s, i + 1, {"0", "1"}) THEN 2
  ELSE IF At(s, i, {"1", "2"}) /\ At(s, i + 1, Digits) THEN 2
  ELSE IF At(s, i, {"0"}) /\ At(s, i + 1, Digits \ {"0"}) THEN 2
  ELSE IF At(s, i, Digits \ {"0"}) THEN 1
  ELSE IF At(s, i, {" "}) /\ At(s, i + 1, Digits \ {"0"}) THEN 2
  ELSE 0

\* the rest of the format, a hyphen and a day, matches n characters after i
MonthFits(s, i, n) == At(s, i + n, {"-"}) /\ DayLen(s, i + n + 1) > 0

\* the length of the text the %m directive takes at i, 1[0-2]|0[1-9]|[1-9],
\* trying the alternatives in this order and keeping the first after which
\* the rest of the format matches; 0 if none fits
MonthLen(s, i) ==
  IF At(s, i, {"1"}) /\ At(s, i + 1, {"0", "1", "2"}) /\ MonthFits(s, i, 2) THEN 2
  ELSE IF At(s, i, {"0"}) /\ At(s, i + 1, Digits \ {"0"}) /\ MonthFits(s, i, 2) THEN 2
  ELSE IF At(s, i, Digits \ {"0"}) /\ MonthFits(s, i, 1) THEN 1
  ELSE 0

NoDate == [ok |-> FALSE, date |-> <<0, 0, 0>>]

\* datetime.strptime(s, "%Y-%m-%d").date(): ok is false where it raises
\* ValueError (no match, unconverted data, or a date that does not exist)
strptime_date(s) ==
  IF ~(\A i \in 1..4 : At(s, i, Digits)) \/ ~At(s, 5, {"-"}) THEN NoDate
  ELSE LET ml == MonthLen(s, 6)
           dl == DayLen(s, 7 + ml)
       IN IF ml = 0 \/ 6 + ml + dl # Len(s) THEN NoDate
          ELSE LET y == IntOf(SubSeq(s, 1, 4), 0)
                   m == IntOf(SubSeq(s, 6, 5 + ml), 0)
                   d == IntOf(SubSeq(s, 7 + ml, 6 + ml + dl), 0)
               IN IF y < 1 \/ d > DaysInMonth(y, m) THEN NoDate
                  ELSE [ok |-> TRUE, date |-> <<y, m, d>>]

\* PhoneBook.filter_by_date that compares created_at, not its date, with the
\* bounds taken at midnight
filter_by_date_datetime(cs, start_date, end_date) ==
  LET s == strptime_date(start_date)
      e == strptime_date(end_date)
      within(c) == /\ DateLeq(s.date, DateOf(c.created_at))
                   /\ \/ DateOf(c.created_at) # e.date /\ DateLeq(DateOf(c.created_at), e.date)
                      \/ DateOf(c.created_at) = e.date /\ c.created_at % TicksPerDay = 0
  IN IF s.ok /\ e.ok
     THEN [status |-> "filtered", result |-> SelectSeq(cs, within)]
     ELSE [status |-> "invalid date", result |-> <<>>]

\* PhoneBook.filter_by_date: ValueError is caught, reported, and [] returned
filter_by_date(cs, start_date, end_date) ==
  LET s == strptime_date(start_date)
      e == strptime_date(end_date)
      within(c) == DateLeq(s.date, DateOf(c.created_at)) /\ DateLeq(DateOf(c.created_at), e.date)
  IN IF s.ok /\ e.ok
     THEN [status |-> "filtered", result |-> SelectSeq(cs, within)]
     ELSE [status |-> "invalid date", result |-> <<>>]

(***************************************************************************)
(* The values the calls are made with.                                     *)
(***************************************************************************)
Jo == <<"J", "o">>

JoLow == <<"j", "o", " ">>

Al == <<"A", "l">>

Ed == <<"E", "d">>

Bo == <<"B", "o">>

Doe == <<"D", "o", "e">>

DoeUp == <<" ", "D", "O", "E">>

DoeLow == <<"d", "o", "e">>

Abe == <<"a", "b", "e">>

Bee == <<"B", "e", "e">>

Zed == <<"Z", "e", "d">>

Mail == <<"a", "@", "b">>

Addr == <<"X", ",", "\"", "Y">>

\* what a caller passes to Contact(...): first, last, phone, email, address
Person(first_name, last_name, phone_number, email, address) ==
  [first_name |-> first_name, last_name |-> last_name, phone_number |-> phone_number,
   email |-> email, address |-> address]

JoDoe == Person(Jo, Doe, Phone1, None, None)

JoDOE == Person(JoLow, DoeUp, Phone2, <<>>, <<>>)

AlDoe == Person(Al, DoeLow, Phone1, Mail, Addr)

EdAbe == Person(Ed, Abe, Phone2, None, None)

EdZed == Person(Ed, Zed, Phone1, Mail, None)

BoBee == Person(Bo, Bee, BadPhone, None, None)

JoBad == Person(Jo, Doe, Phone1 \o <<" ">>, <<>>, None)

People == {JoDoe, JoDOE, AlDoe, EdAbe, EdZed, BoBee, JoBad}

StorePeople == {JoDoe, JoDOE, AlDoe, BoBee}

\* the (first_name, last_name) pairs removals are called with
NamePairs == {<<Jo, Doe>>, <<<<" ", "j", "o">>, <<"d", "O", "E", " ">>>>, <<<<"A", "L">>, Doe>>, <<Bo, Bee>>}

\* the (first_name, last_name) pairs updates are called with
UpdatePairs == {<<<<"J", "O">>, DoeLow>>, <<Bo, Bee>>}

\* the new_contact_info dictionaries updates are called with
Info(first_name, last_name, phone_number, email, address) ==
  [first_name |-> first_name, last_name |-> last_name, phone_number |-> phone_number,
   email |-> email, address |-> address]

Infos ==
  {Info(None, Zed, None, None, None),
   Info(None, None, BadPhone, None, None),
   Info(<<>>, None, None, <<>>, None)}

Queries == {<<>>, <<"d", "o">>, <<" ", "D", "O", " ">>, <<"5", "5", "5">>, <<"2", "X">>, <<" ", " ">>}

\* the bounds filter_by_date is called with
Y2024 == <<"2", "0", "2", "4", "-">>

Jan30 == Y2024 \o <<"0", "1", "-", "3", "0">>

Jan31 == Y2024 \o <<"0", "1", "-", "3", "1">>

Feb01 == Y2024 \o <<"0", "2", "-", "0", "1">>

Jan31Short == Y2024 \o <<"1", "-", "3", "1">>

Feb30 == Y2024 \o <<"0", "2", "-", "3", "0">>

Month13 == Y2024 \o <<"1", "3", "-", "4", "0">>

DatePairs ==
  {<<Jan30, Jan30>>, <<Jan30, Jan31>>, <<Jan31, Jan31>>, <<Jan31, Feb01>>, <<Jan30, Feb01>>,
   <<Feb01, Jan30>>, <<Jan31Short, Feb01>>, <<Jan30, Jan31Short>>, <<Feb30, Feb01>>,
   <<Jan30, Month13>>, <<Month13, Feb30>>}

TimePeople == {JoDoe, EdAbe}

TimeInfos == {Info(<<>>, Zed, None, <<>>, None)}

\* contacts whose names differ in case only, and one whose names carry spaces
JoDoeLow == Person(<<"j", "O">>, DoeLow, Phone2, Mail, None)

UpdatePeople == {JoDoe, JoDoeLow, JoDOE}

\* new_contact_info whose phone_number is valid, empty or absent
ValidInfos ==
  {Info(None, None, Phone2, None, None),
   Info(None, None, <<>>, Mail, None),
   Info(<<>>, None, None, None, None)}

\* csv files given to batch_import and batch_delete
File(lines) == [exists |-> TRUE, lines |-> lines]

NoFile == [exists |-> FALSE, lines |-> <<>>]

Line3(p) == csv_writerow(<<p.first_name, p.last_name, p.phone_number>>)

Line5(p) == csv_writerow(<<p.first_name, p.last_name, p.phone_number, p.email, p.address>>)

ImportFiles ==
  {NoFile,
   File(<<>>),
   File(<<Line3(JoDoe), Line3(BoBee), Line5(AlDoe)>>),
   File(<<Line5(JoBad), Line5(JoBad), Line5(JoDOE)>>),
   File(<<csv_writerow(<<Jo, Doe>>), <<>>, Line3(JoDoe), Line3(JoDoe)>>)}

\* what contacts.csv may hold when a session starts
DiskFiles == {NoFile, File(<<Line3(BoBee), Line5(JoDOE)>>)}

Header == <<"f", ",", "l">>

DeleteFiles ==
  {NoFile,
   File(<<>>),
   File(<<Header>>),
   File(<<Header, csv_writerow(<<Jo, Doe>>)>>),
   File(<<Header, csv_writerow(<<<<" ", "a", "l", " ">>, <<"D", "O", "E", " ">>, Mail>>), <<"A">>, csv_writerow(<<Bo, Bee>>)>>)}

(***************************************************************************)
(* State.  contacts: PhoneBook.contacts.  file: contacts.csv.  now: the     *)
(* clock behind datetime.now(), in ticks.  last: the last call made, the    *)
(* contact list it started from, what it returned or reported, and the      *)
(* exception that left it, if any.                                          *)
(***************************************************************************)
NoCall == [op |-> "none", before |-> <<>>, exc |-> "none"]

Init ==
  /\ contacts = <<>>
  /\ file = NoFile
  /\ now = 0
  /\ last = NoCall

\* the clock moves on
Tick ==
  /\ now < MaxClock
  /\ now' = now + 1
  /\ UNCHANGED <<contacts, file, last>>

\* a caller constructs a Contact and calls add_contact; the clock may move on
\* by one of advance between the two datetime.now() of the constructor; the
\* list holds at most cap contacts
CallAddContact(people, advance, cap) ==
  \E p \in people, d \in advance :
    /\ Len(contacts) < cap \/ ~validate_phone_number(p.phone_number)
    /\ now + d <= MaxClock
    /\ LET c == Contact(p.first_name, p.last_name, p.phone_number, p.email, p.address, now, now + d)
       IN /\ contacts' = add_contact(contacts, c)
          /\ last' = [op |-> "add_contact", before |-> contacts, exc |-> "none", contact |-> c,
                      status |-> IF validate_phone_number(c.phone_number) THEN "added" ELSE "invalid phone"]
    /\ now' = now + d
    /\ UNCHANGED file

CallSortContacts ==
  \E key \in {"first_name", "last_name"} :
    /\ contacts' = sort_contacts(contacts, key)
    /\ last' = [op |-> "sort_contacts", before |-> contacts, exc |-> "none", key |-> key]
    /\ UNCHANGED <<file, now>>

CallRemoveContactByName ==
  \E n \in NamePairs :
    /\ contacts' = remove_contact_by_name(contacts, n[1], n[2])
    /\ last' = [op |-> "remove_contact_by_name", before |-> contacts, exc |-> "none",
                first_name |-> n[1], last_name |-> n[2],
                status |-> IF Len(contacts') < Len(contacts) THEN "deleted" ELSE "not found"]
    /\ UNCHANGED <<file, now>>

CallUpdateContactByName(infos) ==
  \E n \in UpdatePairs, info \in infos :
    /\ contacts' = update_contact_by_name(contacts, n[1], n[2], info, now)
    /\ last' = [op |-> "update_contact_by_name", before |-> contacts, exc |-> "none",
                first_name |-> n[1], last_name |-> n[2], info |-> info,
                status |-> IF update_target(contacts, n[1], n[2]) # 0 THEN "updated" ELSE "not found"]
    /\ UNCHANGED <<file, now>>

CallSearchContact ==
  \E q \in Queries :
    /\ last' = [op |-> "search_contact", before |-> contacts, exc |-> "none",
                query |-> q, result |-> search_contact(contacts, q)]
    /\ UNCHANGED <<contacts, file, now>>

\* a caller that holds a Contact of the store calls its update_contact
CallUpdateContact(infos) ==
  \E i \in 1..Len(contacts), info \in infos :
    /\ contacts' = [contacts EXCEPT ![i] = update_contact(@, info, now)]
    /\ last' = [op |-> "update_contact", before |-> contacts, exc |-> "none", index |-> i, info |-> info]
    /\ UNCHANGED <<file, now>>

CallFilterByDate ==
  \E d \in DatePairs :
    /\ last' = [op |-> "filter_by_date", before |-> contacts, exc |-> "none",
                start_date |-> d[1], end_date |-> d[2],
                status |-> filter_by_date(contacts, d[1], d[2]).status,
                result |-> filter_by_date(contacts, d[1], d[2]).result]
    /\ UNCHANGED <<contacts, file, now>>

CallBatchImport ==
  \E src \in ImportFiles :
    /\ Len(contacts) + Len(src.lines) <= MaxContacts
    /\ LET r == batch_import(contacts, src, now)
       IN /\ contacts' = r.contacts
          /\ last' = [op |-> "batch_import", before |-> contacts, exc |-> "none", csv_file |-> src,
                      status |-> r.status, invalid |-> r.invalid]
    /\ UNCHANGED <<file, now>>

CallBatchDelete ==
  \E src \in DeleteFiles :
    LET r == batch_delete(contacts, src)
    IN /\ contacts' = r.contacts
       /\ last' = [op |-> "batch_delete", before |-> contacts, exc |-> r.exc, csv_file |-> src,
                   status |-> r.status, not_found |-> r.not_found]
       /\ UNCHANGED <<file, now>>

CallSaveToFile ==
  /\ file' = File(save_to_file(contacts))
  /\ last' = [op |-> "save_to_file", before |-> contacts, exc |-> "none"]
  /\ UNCHANGED <<contacts, now>>

CallLoadFromFile ==
  /\ Len(contacts) + Len(file.lines) <= MaxContacts
  /\ contacts' = load_from_file(contacts, file, now)
  /\ last' = [op |-> "load_from_file", before |-> contacts, exc |-> "none",
              status |-> IF file.exists THEN "loaded" ELSE "file not found"]
  /\ UNCHANGED <<file, now>>

\* main() in a new process: PhoneBook() and load_from_file()
Startup ==
  /\ contacts' = load_from_file(<<>>, file, now)
  /\ last' = [op |-> "main", before |-> <<>>, exc |-> "none",
              status |-> IF file.exists THEN "loaded" ELSE "file not found"]
  /\ UNCHANGED <<file, now>>

\* a call of both phone checks on one string
ValidatePhone ==
  \E s \in PhoneStrings :
    /\ last' = [op |-> "validate_phone_number", before |-> contacts, exc |-> "none", s |-> s,
                store |-> validate_phone_number(s), cli |-> main_validate_phone_number(s)]
    /\ UNCHANGED <<contacts, file, now>>

NextPhone == ValidatePhone

SpecPhone == Init /\ [][NextPhone]_vars

\* add_contact calls only, from the empty store
NextAdd == CallAddContact(People, {0}, MaxContacts)

SpecAdd == Init /\ [][NextAdd]_vars

\* the operations of the store, on a clock that stands still
Next ==
  \/ CallAddContact(StorePeople, {0}, MaxContacts)
  \/ CallSortContacts
  \/ CallRemoveContactByName
  \/ CallUpdateContactByName(Infos)
  \/ CallSearchContact
  \/ CallBatchImport
  \/ CallBatchDelete

Spec == Init /\ [][Next]_vars

\* one session that builds a store while contacts.csv does not exist, saves
\* it, and the sessions that load it afterwards
NextFile ==
  \/ /\ ~file.exists
     /\ \/ CallAddContact(StorePeople, {0}, MaxContacts)
        \/ CallUpdateContactByName(Infos)
        \/ CallBatchImport
  \/ CallSaveToFile
  \/ CallLoadFromFile
  \/ Startup

SpecFile == Init /\ [][NextFile]_vars

\* contacts added while the clock runs, and filtered by date
NextDate ==
  \/ Tick
  \/ CallAddContact(TimePeople, {0}, MaxTimed)
  \/ CallFilterByDate

SpecDate == Init /\ [][NextDate]_vars

\* contacts built and updated while the clock runs
NextContact ==
  \/ Tick
  \/ CallAddContact(TimePeople, {0, 1}, MaxTimed)
  \/ CallUpdateContact(TimeInfos)

SpecContact == Init /\ [][NextContact]_vars

\* contacts added and updated by name while the clock runs
NextUpdate ==
  \/ Tick
  \/ CallAddContact(UpdatePeople, {0}, MaxTimed)
  \/ CallUpdateContactByName(TimeInfos)

SpecUpdate == Init /\ [][NextUpdate]_vars

\* a session that finds any contacts.csv on disk
InitDisk ==
  /\ contacts = <<>>
  /\ file \in DiskFiles
  /\ now = 0
  /\ last = NoCall

\* every operation that changes the store, updates with a valid, empty or
\* absent phone_number only
NextValid ==
  \/ CallAddContact(StorePeople, {0}, MaxContacts)
  \/ CallSortContacts
  \/ CallRemoveContactByName
  \/ CallUpdateContactByName(ValidInfos)
  \/ CallBatchImport
  \/ CallBatchDelete
  \/ CallLoadFromFile

SpecValid == InitDisk /\ [][NextValid]_vars

(***************************************************************************)
(* Vocabulary of the properties.                                           *)
(***************************************************************************)
\* s <= t in dictionary order of code points, by the first place they differ
LexLeq(s, t) ==
  \/ /\ Len(s) <= Len(t)
     /\ \A j \in 1..Len(s) : s[j] = t[j]
  \/ \E k \in 1..Len(s) :
       /\ k <= Len(t)
       /\ \A j \in 1..(k - 1) : s[j] = t[j]
       /\ Ord(s[k]) < Ord(t[k])

\* q occurs in s
IsSubstring(q, s) == \E a \in 0..Len(s) : \E b \in a..Len(s) : SubSeq(s, a + 1, b) = q

\* how often x occurs in a sequence
Count(seq, x) == Cardinality({i \in 1..Len(seq) : seq[i] = x})

\* two sequences hold the same values, each as often
SameMultiset(s, t) ==
  /\ Len(s) = Len(t)
  /\ \A i \in 1..Len(s) : Count(s, s[i]) = Count(t, s[i])

FieldsOf(cs) == [i \in 1..Len(cs) |-> Fields(cs[i])]

DecimalDigits == {"0", "1", "2", "3", "4", "5", "6", "7", "8", "9"}

\* the 14 characters ( D D D ) space D D D - D D D D
PhoneShape(s) ==
  /\ Len(s) = 14
  /\ s[1] = "(" /\ s[5] = ")" /\ s[6] = " " /\ s[10] = "-"
  /\ \A i \in {2, 3, 4, 7, 8, 9, 11, 12, 13, 14} : s[i] \in DecimalDigits

(***************************************************************************)
(* C1: after any sequence of add_contact calls from the empty store, with  *)
(* valid or invalid phone numbers, the contact list is in non-decreasing   *)
(* order of lower-cased last_name in every state.  (SpecAdd)               *)
(***************************************************************************)
C1_SortedByLastName ==
  \A i \in 1..(Len(contacts) - 1) :
    LexLeq(Lower(contacts[i].last_name), Lower(contacts[i + 1].last_name))

\* three contacts whose order by last_name as stored is not the order kept,
\* after a rejected add
C1_Witness ==
  /\ Len(contacts) = 3
  /\ last.op = "add_contact" /\ last.status = "invalid phone"
  /\ \E i \in 1..2 : ~LexLeq(contacts[i].last_name, contacts[i + 1].last_name)

(***************************************************************************)
(* C2: add_contact with a record whose phone_number is not of the form     *)
(* (DDD) DDD-DDDD leaves the contact list as it was: same length, same     *)
(* records, same order.                                                    *)
(***************************************************************************)
C2_InvalidAddIsNoOp ==
  (last.op = "add_contact" /\ ~PhoneShape(last.contact.phone_number)) =>
    contacts = last.before

\* a rejected add on a list of at least two contacts that is not in order
C2_Witness ==
  /\ last.op = "add_contact" /\ ~PhoneShape(last.contact.phone_number)
  /\ Len(last.before) >= 2
  /\ ~C1_SortedByLastName

(***************************************************************************)
(* C3: remove_contact_by_name(first, last) removes every record whose      *)
(* stripped, lower-cased first and last name both equal the stripped,      *)
(* lower-cased arguments, keeps every other record in its relative order,  *)
(* and a second call with the same arguments changes nothing.              *)
(***************************************************************************)
Named(c, first_name, last_name) ==
  /\ Lower(Strip(c.first_name)) = Lower(Strip(first_name))
  /\ Lower(Strip(c.last_name)) = Lower(Strip(last_name))

C3_RemoveAllMatches ==
  last.op = "remove_contact_by_name" =>
    LET other(c) == ~Named(c, last.first_name, last.last_name)
    IN /\ contacts = SelectSeq(last.before, other)
       /\ remove_contact_by_name(contacts, last.first_name, last.last_name) = contacts

\* two records removed by one call, one of them stored in another case and
\* with surrounding blanks, and a record kept
C3_Witness ==
  /\ last.op = "remove_contact_by_name"
  /\ Len(last.before) = Len(contacts) + 2
  /\ Len(contacts) >= 1
  /\ \E i \in 1..Len(last.before) :
       /\ Named(last.before[i], last.first_name, last.last_name)
       /\ last.before[i].last_name # Strip(last.last_name)

(***************************************************************************)
(* C4: for every store the operations reach, save_to_file followed by      *)
(* load_from_file into a new empty store gives a store with the same       *)
(* multiset of (first_name, last_name, phone_number, email, address).      *)
(* (SpecFile)                                                              *)
(***************************************************************************)
C4_RoundTrip ==
  last.op = "save_to_file" =>
    SameMultiset(FieldsOf(load_from_file(<<>>, file, now)), FieldsOf(contacts))

(***************************************************************************)
(* C5: no operation of the store lets an exception reach its caller; each  *)
(* either completes with a reported status or leaves the store alone.      *)
(***************************************************************************)
C5_NoExceptionEscapes == last.exc = "none"

(***************************************************************************)
(* C6: batch_import partitions the rows of at least three fields: every    *)
(* row with a valid phone is added (the store grows by the number of valid *)
(* rows, duplicates included), every row with an invalid phone is reported *)
(* once and not added, and an invalid row does not stop the import of the  *)
(* valid rows before or after it.                                          *)
(***************************************************************************)
RowFields(row) ==
  <<row[1], row[2], row[3], IF Len(row) > 3 THEN row[4] ELSE None, IF Len(row) > 4 THEN row[5] ELSE None>>

C7_SearchAsClaimed ==
  last.op = "search_contact" =>
    LET hit(c) == \/ IsSubstring(Lower(last.query), Lower(c.first_name))
                  \/ IsSubstring(Lower(last.query), Lower(c.last_name))
                  \/ IsSubstring(last.query, c.phone_number)
    IN /\ last.result = SelectSeq(last.before, hit)
       /\ (last.query = <<>> => last.result = last.before)
       /\ contacts = last.before

(***************************************************************************)
(* C7 as amended: search_contact(query) returns exactly the records for    *)
(* which the query, stripped of surrounding whitespace and lower-cased, is *)
(* a substring of the lower-cased first_name or last_name or of the        *)
(* phone_number as stored, in store order; a query that is empty after     *)
(* stripping returns every record; the store is unchanged.                 *)
(***************************************************************************)
C7_SearchStripped ==
  last.op = "search_contact" =>
    LET q == Lower(Strip(last.query))
        hit(c) == \/ IsSubstring(q, Lower(c.first_name))
                  \/ IsSubstring(q, Lower(c.last_name))
                  \/ IsSubstring(q, c.phone_number)
    IN /\ last.result = SelectSeq(last.before, hit)
       /\ (Strip(last.query) = <<>> => last.result = last.before)
       /\ contacts = last.before

\* a query with surrounding blanks that finds some records and not others
C7_Witness ==
  /\ last.op = "search_contact"
  /\ Strip(last.query) # last.query /\ Strip(last.query) # <<>>
  /\ last.result # <<>>
  /\ Len(last.result) < Len(last.before)

(***************************************************************************)
(* Dates as the properties read them: the text between the hyphens, the    *)
(* number it writes, and the days of each month.                           *)
(***************************************************************************)
OneToNine == DecimalDigits \ {"0"}

MonthTexts ==
  {<<a>> : a \in OneToNine} \cup {<<"0", a>> : a \in OneToNine} \cup {<<"1", a>> : a \in {"0", "1", "2"}}

DayTexts ==
  {<<a>> : a \in OneToNine} \cup {<<"0", a>> : a \in OneToNine} \cup {<<" ", a>> : a \in OneToNine}
    \cup {<<a, b>> : a \in {"1", "2"}, b \in DecimalDigits} \cup {<<"3", b>> : b \in {"0", "1"}}

DigitOrder == <<"0", "1", "2", "3", "4", "5", "6", "7", "8", "9">>

ValueOf(c) == IF c = " " THEN 0 ELSE (CHOOSE n \in 1..10 : DigitOrder[n] = c) - 1

RECURSIVE NumberOf(_)
NumberOf(s) == IF s = <<>> THEN 0 ELSE 10 * NumberOf(SubSeq(s, 1, Len(s) - 1)) + ValueOf(s[Len(s)])

MonthDays(y, m) ==
  IF m = 2 /\ ((y % 4 = 0 /\ y % 100 # 0) \/ y % 400 = 0) THEN 29
  ELSE <<31, 28, 31, 30, 31, 30, 31, 31, 30, 31, 30, 31>>[m]

\* where the hyphen after the month stands
SecondHyphen(s) == IF Len(s) >= 7 /\ s[7] = "-" THEN 7 ELSE 8

YearText(s) == SubSeq(s, 1, 4)

MonthText(s) == SubSeq(s, 6, SecondHyphen(s) - 1)

DayText(s) == SubSeq(s, SecondHyphen(s) + 1, Len(s))

\* a four-digit year from 0001, a month and a day of that month, each in one
\* or two digits, a one-digit day possibly after a blank
AcceptedDate(s) ==
  /\ Len(s) > SecondHyphen(s)
  /\ \A j \in 1..4 : s[j] \in DecimalDigits
  /\ s[5] = "-" /\ s[SecondHyphen(s)] = "-"
  /\ MonthText(s) \in MonthTexts
  /\ DayText(s) \in DayTexts
  /\ NumberOf(YearText(s)) >= 1
  /\ NumberOf(DayText(s)) <= MonthDays(NumberOf(YearText(s)), NumberOf(MonthText(s)))

\* YYYY-MM-DD: ten characters, all of them digits but the two hyphens
WellFormedDate(s) ==
  /\ Len(s) = 10
  /\ \A j \in {1, 2, 3, 4, 6, 7, 9, 10} : s[j] \in DecimalDigits
  /\ AcceptedDate(s)

\* dates in the order of yyyymmdd
DateNumber(s) == 10000 * NumberOf(YearText(s)) + 100 * NumberOf(MonthText(s)) + NumberOf(DayText(s))

CreatedNumber(c) == 10000 * DateOf(c.created_at)[1] + 100 * DateOf(c.created_at)[2] + DateOf(c.created_at)[3]

InRange(c, start_date, end_date) ==
  DateNumber(start_date) <= CreatedNumber(c) /\ CreatedNumber(c) <= DateNumber(end_date)

(***************************************************************************)
(* C8 as claimed: filter_by_date(start, end) with two well-formed          *)
(* YYYY-MM-DD bounds returns exactly the records whose created_at date d   *)
(* has start <= d <= end, in store order, so nothing when start > end;     *)
(* with a malformed bound it returns nothing; the store is unchanged.      *)
(* (SpecDate)                                                              *)
(***************************************************************************)
C8_FilterAsClaimed ==
  last.op = "filter_by_date" =>
    LET within(c) == InRange(c, last.start_date, last.end_date)
    IN /\ contacts = last.before
       /\ IF WellFormedDate(last.start_date) /\ WellFormedDate(last.end_date)
          THEN /\ last.result = SelectSeq(last.before, within)
               /\ (DateNumber(last.start_date) > DateNumber(last.end_date) => last.result = <<>>)
          ELSE last.result = <<>>

(***************************************************************************)
(* C8 as amended: filter_by_date(start, end) with two bounds that each     *)
(* write a calendar date as a four-digit year, a month and a day, the      *)
(* month and the day in one or two digits (a one-digit day possibly after  *)
(* a blank), returns exactly the records whose created_at date d has       *)
(* start <= d <= end, in store order, so nothing when start > end; with    *)
(* any other bound it returns nothing; the store is unchanged.  (SpecDate) *)
(***************************************************************************)
C8_FilterLenient ==
  last.op = "filter_by_date" =>
    LET within(c) == InRange(c, last.start_date, last.end_date)
    IN /\ contacts = last.before
       /\ IF AcceptedDate(last.start_date) /\ AcceptedDate(last.end_date)
          THEN /\ last.result = SelectSeq(last.before, within)
               /\ (DateNumber(last.start_date) > DateNumber(last.end_date) => last.result = <<>>)
          ELSE last.result = <<>>

\* a filter that returns one contact and not another, the one returned made
\* on the day of the upper bound after midnight
C8_Witness ==
  /\ last.op = "filter_by_date"
  /\ Len(last.result) = 1 /\ Len(last.before) = 2
  /\ CreatedNumber(last.result[1]) = DateNumber(last.end_date)
  /\ last.result[1].created_at % TicksPerDay # 0

(***************************************************************************)
(* C9: validate_phone_number(s) holds exactly when s is the 14 characters  *)
(* ( D D D ) space D D D - D D D D with every D one of 0..9, and the check  *)
(* of main.py gives the same answer as the store's on every string.        *)
(* (SpecPhone)                                                             *)
(***************************************************************************)
C9_PhoneExact ==
  last.op = "validate_phone_number" =>
    /\ last.store = PhoneShape(last.s)
    /\ last.cli = last.store

\* a well-formed number followed by one more character, rejected
C9_Witness ==
  /\ last.op = "validate_phone_number"
  /\ Len(last.s) = 15
  /\ PhoneShape(SubSeq(last.s, 1, 14))
  /\ ~last.store

(***************************************************************************)
(* C10: for every Contact, after its construction and after any number of  *)
(* update_contact calls, on a clock that never goes back, updated_at >=    *)
(* created_at, and created_at keeps the value the constructor gave it.     *)
(* (SpecContact)                                                           *)
(***************************************************************************)
CreatedAts(cs) == [i \in 1..Len(cs) |-> cs[i].created_at]

C10_Timestamps ==
  /\ \A i \in 1..Len(contacts) : contacts[i].updated_at >= contacts[i].created_at
  /\ last.op = "update_contact" => CreatedAts(contacts) = CreatedAts(last.before)
  /\ (last.op = "add_contact" /\ last.status = "added") =>
       SameMultiset(CreatedAts(contacts), Append(CreatedAts(last.before), last.contact.created_at))

\* a Contact updated after the clock moved on: a field and updated_at changed
C10_Witness ==
  /\ last.op = "update_contact"
  /\ contacts[last.index].last_name # last.before[last.index].last_name
  /\ contacts[last.index].updated_at > last.before[last.index].updated_at
  /\ contacts[last.index].updated_at > contacts[last.index].created_at

(***************************************************************************)
(* C11: update_contact_by_name(first, last, fields) changes at most one    *)
(* record, the first in store order whose first and last name equal the    *)
(* arguments without regard to case.  Of that record only the fields that  *)
(* were supplied non-empty, and updated_at, change; every other record,    *)
(* the length of the store and every position stay as they were (the list  *)
(* is not sorted again), and with no match the store is unchanged.         *)
(* (SpecUpdate)                                                            *)
(***************************************************************************)
UpperLetters == <<"A", "B", "C", "D", "E", "F", "G", "H", "I", "J", "K", "L", "M",
                  "N", "O", "P", "Q", "R", "S", "T", "U", "V", "W", "X", "Y", "Z">>

LowerLetters == <<"a", "b", "c", "d", "e", "f", "g", "h", "i", "j", "k", "l", "m",
                  "n", "o", "p", "q", "r", "s", "t", "u", "v", "w", "x", "y", "z">>

SameLetter(a, b) ==
  \/ a = b
  \/ \E k \in 1..Len(UpperLetters) : {a, b} = {UpperLetters[k], LowerLetters[k]}

EqualNoCase(s, t) ==
  /\ Len(s) = Len(t)
  /\ \A j \in 1..Len(s) : SameLetter(s[j], t[j])

NameMatches(cs, first_name, last_name) ==
  {k \in 1..Len(cs) :
     EqualNoCase(cs[k].first_name, first_name) /\ EqualNoCase(cs[k].last_name, last_name)}

FieldNames == {"first_name", "last_name", "phone_number", "email", "address"}

Supplied(x) == x # None /\ x # <<>>

C11_UpdateFrame ==
  last.op = "update_contact_by_name" =>
    LET hits == NameMatches(last.before, last.first_name, last.last_name)
    IN /\ Len(contacts) = Len(last.before)
       /\ hits = {} => contacts = last.before
       /\ \A k \in 1..Len(last.before) :
            IF k \in hits /\ \A j \in hits : k <= j
            THEN /\ \A f \in FieldNames :
                      contacts[k][f] = IF Supplied(last.info[f]) THEN last.info[f] ELSE last.before[k][f]
                 /\ contacts[k].created_at = last.before[k].created_at
                 /\ contacts[k].updated_at >= last.before[k].updated_at
                 /\ contacts[k].updated_at <= now
            ELSE contacts[k] = last.before[k]

\* two records matched; the first got the new last name and a later
\* updated_at, the second is as it was, and the list is out of order
C11_Witness ==
  /\ last.op = "update_contact_by_name"
  /\ \E i, j \in NameMatches(last.before, last.first_name, last.last_name) :
       /\ i < j
       /\ contacts[i].last_name = Zed
       /\ last.before[i].last_name # Zed
       /\ contacts[i].updated_at > last.before[i].updated_at
       /\ contacts[j] = last.before[j]
       /\ ~LexLeq(Lower(contacts[i].last_name), Lower(contacts[j].last_name))

(***************************************************************************)
(* C12: in every state reached from an empty store by add_contact,         *)
(* batch_import, load_from_file, remove_contact_by_name, batch_delete,     *)
(* sort_contacts and update_contact_by_name calls whose phone_number is    *)
(* absent, empty or valid, every record of the store has a phone_number of *)
(* the shape (DDD) DDD-DDDD: no insertion path (add, batch import, file    *)
(* load) places a record with an invalid phone.  (SpecValid)               *)
(***************************************************************************)
C12_AllPhonesValid == \A i \in 1..Len(contacts) : PhoneShape(contacts[i].phone_number)

\* a load of a file that holds a row with an invalid phone and a row with a
\* valid one: the store grew, by fewer records than the file has rows
C12_Witness ==
  /\ last.op = "load_from_file"
  /\ \E r \in 1..Len(file.lines) : ~PhoneShape(csv_row(file.lines[r])[3])
  /\ Len(contacts) > Len(last.before)
  /\ Len(contacts) < Len(last.before) + Len(file.lines)

====
